---- MODULE Spec2Model ----
(***************************************************************************)
(* deep-thoughts: the bearer-token identity pipeline of the GraphQL server *)
(* (utils/auth.js, schemas/resolvers.js) and the client cache update of    *)
(* the thought form (components/ThoughtForm).                              *)
(*                                                                         *)
(* Three specifications share the variables below:                         *)
(*   SpecAuth   authMiddleware applied to arbitrary requests over time     *)
(*   Spec       requests resolved by authMiddleware and run by resolvers   *)
(*   SpecCache  the Apollo cache views and the addThought update function  *)
(***************************************************************************)
EXTENDS Integers, Sequences, FiniteSets, TLC

VARIABLES
    now,        \* wall clock, in hours (Date.now() as jsonwebtoken reads it)
    req,        \* SpecAuth: the request handed to authMiddleware
    out,        \* SpecAuth: outcome of the last authMiddleware call on req
    users,      \* Spec: the User collection, in insertion order
    thoughts,   \* Spec: the Thought collection, in insertion order
    rq,         \* Spec: the request being served: context, operation, result
    served,     \* Spec: number of requests received so far
    parked,     \* SpecConc: the other request in progress, at one of its awaits
    idToken,    \* SpecCache: localStorage item id_token
    cache,      \* SpecCache: the Apollo cache: the views of QUERY_THOUGHTS and QUERY_ME
    form,       \* SpecCache: ThoughtForm state: thoughtText, characterCount, error
    cpc         \* SpecCache: where handleFormSubmit stands

authVars == <<req, out>>
dbVars == <<users, thoughts>>
srvVars == <<users, thoughts, rq, served, parked>>
cliVars == <<idToken, cache, form, cpc>>

(***************************************************************************)
(* Bounds                                                                  *)
(***************************************************************************)
MaxClock == 3
MaxRequests == 3

(***************************************************************************)
(* JavaScript values a credential carrier can hold.  A string is a         *)
(* sequence of symbols; a symbol is one character, or one run of           *)
(* non-whitespace characters: the scheme word "Bearer", or a compact JWT.  *)
(***************************************************************************)
Undef == [k |-> "undefined"]
Num == [k |-> "number"]
Arr == [k |-> "array"]
StrV(s) == [k |-> "string", s |-> s]

SP == [c |-> "space"]
TAB == [c |-> "tab"]
CharX == [c |-> "x"]
BearerWord == [c |-> "Bearer"]

IsWhitespace(sym) == sym.c \in {"space", "tab"}

Truthy(v) ==
    CASE v.k \in {"undefined", "null"} -> FALSE
      [] v.k = "string" -> v.s # <<>>
      [] OTHER -> TRUE

JsOr(a, b) == IF Truthy(a) THEN a ELSE b

\* String.prototype.split(sep) for a one-symbol separator
RECURSIVE split(_, _)
split(s, sep) ==
    IF \A i \in 1..Len(s) : s[i] # sep
    THEN <<s>>
    ELSE LET i == CHOOSE j \in 1..Len(s) :
                      s[j] = sep /\ \A m \in 1..(j - 1) : s[m] # sep
         IN <<SubSeq(s, 1, i - 1)>> \o split(SubSeq(s, i + 1, Len(s)), sep)

\* Array.prototype.pop() of a non-empty array: its last element
pop(arr) == arr[Len(arr)]

\* String.prototype.trim()
RECURSIVE trim(_)
trim(s) ==
    IF s = <<>> THEN s
    ELSE IF IsWhitespace(s[1]) THEN trim(Tail(s))
    ELSE IF IsWhitespace(s[Len(s)]) THEN trim(SubSeq(s, 1, Len(s) - 1))
    ELSE s

(***************************************************************************)
(* jsonwebtoken: sign and verify with HS256                                *)
(***************************************************************************)
secret == "mysecretsshhhhh"
expiration == 2

HS256(key, payload) == [key |-> key, of |-> payload]

JwtSym(payload, sig) == [c |-> "jwt", payload |-> payload, sig |-> sig]

\* jwt.sign(claims, key, { expiresIn }) at time t
jwt_sign(claims, key, expiresIn, t) ==
    LET payload == [data |-> claims.data, iat |-> t, exp |-> t + expiresIn]
    IN <<JwtSym(payload, HS256(key, payload))>>

\* jwt.verify(token, key, { maxAge }) at time t: the payload, or an error
jwt_verify(token, key, maxAge, t) ==
    IF token.k # "string"
    THEN [ok |-> FALSE, error |-> "JsonWebTokenError: jwt must be a string"]
    ELSE IF Len(token.s) # 1 \/ token.s[1].c # "jwt"
    THEN [ok |-> FALSE, error |-> "JsonWebTokenError: jwt malformed"]
    ELSE LET sym == token.s[1]
         IN IF sym.sig # HS256(key, sym.payload)
            THEN [ok |-> FALSE, error |-> "JsonWebTokenError: invalid signature"]
            ELSE IF t >= sym.payload.exp
            THEN [ok |-> FALSE, error |-> "TokenExpiredError: jwt expired"]
            ELSE IF t >= sym.payload.iat + maxAge
            THEN [ok |-> FALSE, error |-> "TokenExpiredError: maxAge exceeded"]
            ELSE [ok |-> TRUE, payload |-> sym.payload]

(***************************************************************************)
(* utils/auth.js                                                           *)
(***************************************************************************)
\* mutant of signToken: the email is stored under username
signToken_wrongField(user, t) ==
    LET payload == [username |-> user.email, email |-> user.email,
                    _id |-> user._id]
    IN jwt_sign([data |-> payload], secret, expiration, t)

signToken(user, t) ==
    LET payload == [username |-> user.username, email |-> user.email,
                    _id |-> user._id]
    IN jwt_sign([data |-> payload], secret, expiration, t)

\* mutant of tokenOf: the header is consulted before the body and the query
tokenOf_headerFirst(r) ==
    LET token == JsOr(JsOr(r.headers.authorization, r.query.token), r.body.token)
    IN IF Truthy(r.headers.authorization)
       THEN IF token.k # "string"
            THEN [threw |-> TRUE, error |-> "TypeError: token.split is not a function"]
            ELSE [threw |-> FALSE, token |-> StrV(trim(pop(split(token.s, SP))))]
       ELSE [threw |-> FALSE, token |-> token]

\* the value of the local `token` when the !token test is reached, or the
\* TypeError of calling .split on a value that is not a string
tokenOf(r) ==
    LET token == JsOr(JsOr(r.body.token, r.query.token), r.headers.authorization)
    IN IF Truthy(r.headers.authorization)
       THEN IF token.k # "string"
            THEN [threw |-> TRUE, error |-> "TypeError: token.split is not a function"]
            ELSE [threw |-> FALSE, token |-> StrV(trim(pop(split(token.s, SP))))]
       ELSE [threw |-> FALSE, token |-> token]

\* jwt.decode(token): the payload of a well-formed token, nothing checked
jwt_decode(token) ==
    IF token.k # "string" \/ Len(token.s) # 1 \/ token.s[1].c # "jwt"
    THEN [ok |-> FALSE, error |-> "null"]
    ELSE [ok |-> TRUE, payload |-> token.s[1].payload]

\* mutant of authMiddleware: the token is decoded, not verified
authMiddleware_decodeOnly(r, t) ==
    LET tk == tokenOf(r)
    IN IF tk.threw
       THEN [kind |-> "throw", error |-> tk.error, verified |-> <<>>]
       ELSE IF ~Truthy(tk.token)
       THEN [kind |-> "return", req |-> r, verified |-> <<>>]
       ELSE LET v == jwt_decode(tk.token)
            IN IF v.ok
               THEN [kind |-> "return", req |-> [r EXCEPT !.user = v.payload.data],
                     verified |-> <<tk.token>>]
               ELSE [kind |-> "return", req |-> r, verified |-> <<tk.token>>]

\* mutant of authMiddleware: a request without a token is refused
authMiddleware_tokenRequired(r, t) ==
    LET tk == tokenOf(r)
    IN IF tk.threw \/ ~Truthy(tk.token)
       THEN [kind |-> "throw", error |-> "Error: no token", verified |-> <<>>]
       ELSE LET v == jwt_verify(tk.token, secret, expiration, t)
            IN IF v.ok
               THEN [kind |-> "return", req |-> [r EXCEPT !.user = v.payload.data],
                     verified |-> <<tk.token>>]
               ELSE [kind |-> "return", req |-> r, verified |-> <<tk.token>>]

\* authMiddleware({ req }) at time t.  `verified` lists the arguments of the
\* jwt.verify calls made.
authMiddleware(r, t) ==
    LET tk == tokenOf(r)
    IN IF tk.threw
       THEN [kind |-> "throw", error |-> tk.error, verified |-> <<>>]
       ELSE IF ~Truthy(tk.token)
       THEN [kind |-> "return", req |-> r, verified |-> <<>>]
       ELSE LET v == jwt_verify(tk.token, secret, expiration, t)
            IN IF v.ok
               THEN [kind |-> "return", req |-> [r EXCEPT !.user = v.payload.data],
                     verified |-> <<tk.token>>]
               ELSE [kind |-> "return", req |-> r, verified |-> <<tk.token>>]

(***************************************************************************)
(* Requests a client or an attacker can send at time t                     *)
(***************************************************************************)
Alice == [_id |-> "id1", username |-> "alice", email |-> "alice@mail"]
Bob == [_id |-> "id2", username |-> "bob", email |-> "bob@mail"]
Assertions == {Alice, Bob}

\* tokens the server has issued by time t
IssuedTokens(t) == {signToken(a, i) : a \in Assertions, i \in 0..t}

\* a token signed with a key that is not the server's
ForgedToken(t) == jwt_sign([data |-> Alice], "attacker", expiration, t)

\* an issued token whose expiry was edited after signing
TamperedToken ==
    LET sym == signToken(Alice, 0)[1]
    IN <<[sym EXCEPT !.payload.iat = MaxClock, !.payload.exp = MaxClock + expiration]>>

TokenStrings(t) == IssuedTokens(t) \cup {ForgedToken(t), TamperedToken}

BodyTokens(t) ==
    {Undef, Num, StrV(<<>>), StrV(<<CharX>>)}
        \cup {StrV(s) : s \in TokenStrings(t)}
        \cup {StrV(<<CharX, SP>> \o signToken(Bob, t))}

QueryTokens(t) ==
    {Undef, Arr, StrV(<<>>)}
        \cup {StrV(signToken(a, t)) : a \in Assertions}
        \cup {StrV(<<CharX, SP>> \o signToken(Bob, t))}

AuthorizationHeaders(t) ==
    {Undef, StrV(<<>>), StrV(<<BearerWord>>), StrV(<<BearerWord, SP>>),
     StrV(<<BearerWord, SP, CharX>>)}
        \cup {StrV(<<BearerWord, SP>> \o s) : s \in TokenStrings(t)}
        \cup {StrV(signToken(Alice, t)), StrV(signToken(Alice, t) \o <<TAB>>)}

Request(b, q, h) ==
    [body |-> [token |-> b], query |-> [token |-> q],
     headers |-> [authorization |-> h], user |-> Undef]

NoRequest == [k |-> "none"]
NoClient == [k |-> "none"]
NoCall == [kind |-> "none"]

(***************************************************************************)
(* SpecAuth: authMiddleware applied to requests as time passes             *)
(***************************************************************************)
InitAuth ==
    /\ now = 0
    /\ req = NoRequest
    /\ out = NoCall
    /\ users = <<>>
    /\ thoughts = <<>>
    /\ rq = [pc |-> "off"]
    /\ served = 0
    /\ parked = [pc |-> "off"]
    /\ idToken = NoClient
    /\ cache = NoClient
    /\ form = NoClient
    /\ cpc = "off"

\* a request arrives and Apollo calls context: authMiddleware on it
Resolve(b, q, h) ==
    /\ out = NoCall
    /\ req' = Request(b, q, h)
    /\ out' = authMiddleware(req', now) @@ [at |-> now]
    /\ UNCHANGED <<now, srvVars, cliVars>>

\* the response is produced and the request's context discarded
Discard ==
    /\ out # NoCall
    /\ req' = NoRequest
    /\ out' = NoCall
    /\ UNCHANGED <<now, srvVars, cliVars>>

Tick ==
    /\ out = NoCall
    /\ now < MaxClock
    /\ now' = now + 1
    /\ UNCHANGED <<authVars, srvVars, cliVars>>

NextAuth ==
    \/ \E b \in BodyTokens(now), q \in QueryTokens(now),
          h \in AuthorizationHeaders(now) : Resolve(b, q, h)
    \/ Discard
    \/ Tick

vars == <<now, req, out, users, thoughts, rq, served, parked, idToken, cache, form, cpc>>

SpecAuth == InitAuth /\ [][NextAuth]_vars

(***************************************************************************)
(* Persistence: the User and Thought collections behind the Mongoose       *)
(* models.  Thought ids are 1, 2, ... in insertion order; createdAt is the  *)
(* insertion time stamp, which grows with every insert.                    *)
(***************************************************************************)
bcryptHash(password) == [bcrypt |-> password]

isCorrectPassword(user, password) == user.password = bcryptHash(password)

UserDoc(a, password) ==
    [_id |-> a._id, username |-> a.username, email |-> a.email,
     password |-> bcryptHash(password), thoughts |-> <<>>, friends |-> <<>>]

FirstThought ==
    [_id |-> 1, thoughtText |-> "first", username |-> "alice", createdAt |-> 1,
     reactions |-> <<>>]

SeqToSet(q) == {q[i] : i \in 1..Len(q)}

RECURSIVE SelectSeq2(_, _)
SelectSeq2(q, keep) ==
    IF q = <<>> THEN <<>>
    ELSE IF Head(q) \in keep THEN <<Head(q)>> \o SelectSeq2(Tail(q), keep)
    ELSE SelectSeq2(Tail(q), keep)

\* Model.find(filter) / Model.findOne(filter): documents in natural order
Find(coll, field, value) ==
    SelectSeq2(coll, {d \in SeqToSet(coll) : d[field] = value})

Null == [k |-> "null"]

FindOne(coll, field, value) ==
    LET hits == Find(coll, field, value)
    IN IF hits = <<>> THEN Null ELSE Head(hits)

\* .sort({ createdAt: -1 })
RECURSIVE sortCreatedAtDesc(_)
sortCreatedAtDesc(docs) ==
    IF docs = <<>> THEN <<>>
    ELSE LET i == CHOOSE j \in 1..Len(docs) :
                      \A m \in 1..Len(docs) :
                         \/ docs[m].createdAt < docs[j].createdAt
                         \/ (docs[m].createdAt = docs[j].createdAt /\ j <= m)
         IN <<docs[i]>> \o
            sortCreatedAtDesc(SubSeq(docs, 1, i - 1) \o SubSeq(docs, i + 1, Len(docs)))

\* .select('-__v -password')
selectNoPassword(u) ==
    [_id |-> u._id, username |-> u.username, email |-> u.email,
     thoughts |-> u.thoughts, friends |-> u.friends]

\* .populate(path): ids replaced by the documents they refer to, ids that
\* refer to nothing dropped
RECURSIVE populateIds(_, _)
populateIds(ids, coll) ==
    IF ids = <<>> THEN <<>>
    ELSE LET d == FindOne(coll, "_id", Head(ids))
         IN (IF d = Null THEN <<>> ELSE <<d>>) \o populateIds(Tail(ids), coll)

populate(u, path) ==
    IF u = Null THEN Null
    ELSE IF path = "friends"
    THEN [u EXCEPT !.friends = populateIds(u.friends, users)]
    ELSE [u EXCEPT !.thoughts = populateIds(u.thoughts, thoughts)]

\* the collection with document d replaced by e
Replace(coll, d, e) == [i \in 1..Len(coll) |-> IF coll[i] = d THEN e ELSE coll[i]]

(***************************************************************************)
(* schemas/resolvers.js: what a resolver returns or throws                 *)
(***************************************************************************)
Data(v) == [kind |-> "data", value |-> v]
AuthenticationError(msg) ==
    [kind |-> "error", code |-> "UNAUTHENTICATED", message |-> msg]
PersistenceError(msg) ==
    [kind |-> "error", code |-> "INTERNAL_SERVER_ERROR", message |-> msg]
ContextCreationError(msg) ==
    [kind |-> "error", code |-> "INTERNAL_SERVER_ERROR",
     message |-> "Context creation failed: " \o msg]

\* mutant of Query_thoughts: the documents are not sorted
Query_thoughts_unsorted(args) ==
    LET docs == IF args.username # ""
                THEN Find(thoughts, "username", args.username)
                ELSE thoughts
    IN Data(docs)

Query_thoughts(args) ==
    LET docs == IF args.username # ""
                THEN Find(thoughts, "username", args.username)
                ELSE thoughts
    IN Data(sortCreatedAtDesc(docs))

Query_thought(args) == Data(FindOne(thoughts, "_id", args._id))

Query_users ==
    Data([i \in 1..Len(users) |->
            populate(populate(selectNoPassword(users[i]), "friends"), "thoughts")])

Query_user(args) ==
    LET u == FindOne(users, "username", args.username)
    IN Data(IF u = Null THEN Null
            ELSE populate(populate(selectNoPassword(u), "friends"), "thoughts"))

\* mutant of Query_me: findOne({}) without the _id of the caller
Query_me_anyUser(context) ==
    IF context.user # Undef
    THEN LET u == IF users = <<>> THEN Null ELSE users[1]
         IN Data(IF u = Null THEN Null
                 ELSE populate(populate(selectNoPassword(u), "thoughts"), "friends"))
    ELSE AuthenticationError("Not logged in")

Query_me(context) ==
    IF context.user # Undef
    THEN LET u == FindOne(users, "_id", context.user._id)
         IN Data(IF u = Null THEN Null
                 ELSE populate(populate(selectNoPassword(u), "thoughts"), "friends"))
    ELSE AuthenticationError("Not logged in")

(***************************************************************************)
(* Spec: the server.  A request is received, authMiddleware builds its     *)
(* context, the resolver of its operation runs, the response is sent.      *)
(***************************************************************************)
Nil == [k |-> "nil"]

IdleRq ==
    [pc |-> "idle", op |-> "", args |-> Nil, request |-> Nil, context |-> Nil,
     thought |-> Nil, result |-> Nil]

UserIds == <<"id1", "id2", "id3", "id4", "id5", "id6">>

Operations ==
    {[op |-> "thoughts", args |-> [username |-> u]] : u \in {"", "alice"}}
        \cup {[op |-> "thought", args |-> [_id |-> i]] : i \in {1, 2}}
        \cup {[op |-> "users", args |-> Nil], [op |-> "me", args |-> Nil]}
        \cup {[op |-> "user", args |-> [username |-> u]] : u \in {"bob", "nobody"}}
        \cup {[op |-> "addUser",
               args |-> [username |-> n, email |-> "carol@mail", password |-> "pw-carol"]] :
                 n \in {"carol", "alice"}}
        \cup {[op |-> "login", args |-> [email |-> e, password |-> pw]] :
                 e \in {"alice@mail", "nobody@mail"}, pw \in {"pw-alice", "guess"}}
        \cup {[op |-> "login", args |-> [email |-> "carol@mail", password |-> "pw-carol"]]}
        \cup {[op |-> "addThought", args |-> [thoughtText |-> "hello"]],
              [op |-> "addThought", args |-> [thoughtText |-> "hello", username |-> "bob"]]}
        \cup {[op |-> "addReaction", args |-> [thoughtId |-> i, reactionBody |-> "nice"]] :
                 i \in {1, 9}}
        \cup {[op |-> "addFriend", args |-> [friendId |-> f]] : f \in {"id1", "id2"}}

Identity(u) == [_id |-> u._id, username |-> u.username, email |-> u.email]

Bearer(tok) == StrV(<<BearerWord, SP>> \o tok)

\* the requests clients send at time t: the header the Apollo link sets
\* (empty when no token is stored, "Bearer <token>" otherwise) with a token
\* issued now or an hour ago, with one that has expired, with a forged one;
\* a token in the body; a body token that is JSON but no string
Requests(t) ==
    {Request(Undef, Undef, h) :
        h \in {Undef, StrV(<<>>), Bearer(ForgedToken(t)), Bearer(signToken(Alice, 0)),
               Bearer(signToken(Bob, t - 1))}
              \cup {Bearer(signToken(Identity(users[i]), t)) : i \in 1..Len(users)}}
        \cup {Request(b, q, h) : b \in {Undef, StrV(<<>>)}, q \in {Undef, StrV(<<>>)},
                                   h \in {Undef, StrV(<<>>)}}
        \cup {Request(StrV(signToken(Bob, t)), Undef, Undef),
              Request(Num, Undef, Bearer(signToken(Alice, t)))}

\* the server has been up for as long as a token lives
Init ==
    /\ now = expiration
    /\ req = NoRequest
    /\ out = NoCall
    /\ users = <<[UserDoc(Alice, "pw-alice") EXCEPT !.thoughts = <<1>>],
                 UserDoc(Bob, "pw-bob")>>
    /\ thoughts = <<FirstThought>>
    /\ rq = IdleRq
    /\ served = 0
    /\ parked = [pc |-> "off"]
    /\ idToken = NoClient
    /\ cache = NoClient
    /\ form = NoClient
    /\ cpc = "off"

\* mutant of Receive: the user of a context is kept in one place for all
\* requests, and a request without identity finds the one left there
Receive_sharedUser(r, o) ==
    /\ rq.pc = "idle"
    /\ served < MaxRequests
    /\ served' = served + 1
    /\ LET c == authMiddleware(r, now)
       IN rq' = IF c.kind = "throw"
                THEN [IdleRq EXCEPT !.pc = "done", !.op = o.op, !.args = o.args,
                                    !.request = r,
                                    !.result = ContextCreationError(c.error)]
                ELSE [IdleRq EXCEPT !.pc = "ready", !.op = o.op, !.args = o.args,
                                    !.request = r,
                                    !.context =
                                       IF c.req.user = Undef /\ parked.pc \notin {"idle", "off"}
                                          /\ parked.context # Nil
                                       THEN [c.req EXCEPT !.user = parked.context.user]
                                       ELSE c.req]
    /\ UNCHANGED <<now, authVars, dbVars, parked, cliVars>>

\* Apollo builds the context with authMiddleware; an error it throws fails
\* the request before any resolver runs
Receive(r, o) ==
    /\ rq.pc = "idle"
    /\ served < MaxRequests
    /\ served' = served + 1
    /\ LET c == authMiddleware(r, now)
       IN rq' = IF c.kind = "throw"
                THEN [IdleRq EXCEPT !.pc = "done", !.op = o.op, !.args = o.args,
                                    !.request = r,
                                    !.result = ContextCreationError(c.error)]
                ELSE [IdleRq EXCEPT !.pc = "ready", !.op = o.op, !.args = o.args,
                                    !.request = r, !.context = c.req]
    /\ UNCHANGED <<now, authVars, dbVars, parked, cliVars>>

Finish(result) == rq' = [rq EXCEPT !.pc = "done", !.result = result]

\* mutant of Query: thoughts lists, for a caller with an identity and no
\* username argument, that caller's thoughts only
Query_ownThoughts ==
    /\ rq.pc = "ready"
    /\ rq.op \in {"thoughts", "thought", "users", "user", "me"}
    /\ Finish(CASE rq.op = "thoughts" ->
                     IF rq.context.user # Undef /\ rq.args.username = ""
                     THEN Query_thoughts([username |-> rq.context.user.username])
                     ELSE Query_thoughts(rq.args)
                [] rq.op = "thought" -> Query_thought(rq.args)
                [] rq.op = "users" -> Query_users
                [] rq.op = "user" -> Query_user(rq.args)
                [] rq.op = "me" -> Query_me(rq.context))
    /\ UNCHANGED <<now, authVars, dbVars, served, parked, cliVars>>

\* the resolvers of Query: one read of the collections
Query ==
    /\ rq.pc = "ready"
    /\ rq.op \in {"thoughts", "thought", "users", "user", "me"}
    /\ Finish(CASE rq.op = "thoughts" -> Query_thoughts(rq.args)
                [] rq.op = "thought" -> Query_thought(rq.args)
                [] rq.op = "users" -> Query_users
                [] rq.op = "user" -> Query_user(rq.args)
                [] rq.op = "me" -> Query_me(rq.context))
    /\ UNCHANGED <<now, authVars, dbVars, served, parked, cliVars>>

\* the unique indexes of the User schema on username and email
duplicateKey(coll, args) ==
    \E i \in 1..Len(coll) :
        coll[i].username = args.username \/ coll[i].email = args.email

\* mutant of Mutation_addUser: after a conflict the user is created under
\* another name
Mutation_addUser_retries ==
    /\ rq.pc = "ready"
    /\ rq.op = "addUser"
    /\ LET user == UserDoc([_id |-> UserIds[Len(users) + 1],
                            username |-> IF duplicateKey(users, rq.args)
                                         THEN "another" ELSE rq.args.username,
                            email |-> rq.args.email], rq.args.password)
       IN /\ users' = Append(users, user)
          /\ Finish(Data([token |-> signToken(user, now), user |-> user]))
    /\ UNCHANGED <<now, authVars, thoughts, served, parked, cliVars>>

Mutation_addUser ==
    /\ rq.pc = "ready"
    /\ rq.op = "addUser"
    /\ IF duplicateKey(users, rq.args)
       THEN /\ Finish(PersistenceError("E11000 duplicate key error"))
            /\ UNCHANGED users
       ELSE LET user == UserDoc([_id |-> UserIds[Len(users) + 1],
                                 username |-> rq.args.username,
                                 email |-> rq.args.email], rq.args.password)
            IN /\ users' = Append(users, user)
               /\ Finish(Data([token |-> signToken(user, now), user |-> user]))
    /\ UNCHANGED <<now, authVars, thoughts, served, parked, cliVars>>

\* mutant of Mutation_login: an unknown email gets a message of its own
Mutation_login_tellsUnknownEmail ==
    /\ rq.pc = "ready"
    /\ rq.op = "login"
    /\ LET user == FindOne(users, "email", rq.args.email)
       IN IF user = Null
          THEN Finish(AuthenticationError("No user with this email"))
          ELSE IF ~isCorrectPassword(user, rq.args.password)
          THEN Finish(AuthenticationError("Incorrect credentials"))
          ELSE Finish(Data([token |-> signToken(user, now), user |-> user]))
    /\ UNCHANGED <<now, authVars, dbVars, served, parked, cliVars>>

\* mutant of Mutation_login: the token is signed for the first stored user
Mutation_login_signsFirstUser ==
    /\ rq.pc = "ready"
    /\ rq.op = "login"
    /\ LET user == FindOne(users, "email", rq.args.email)
       IN IF user = Null
          THEN Finish(AuthenticationError("Incorrect credentials"))
          ELSE IF ~isCorrectPassword(user, rq.args.password)
          THEN Finish(AuthenticationError("Incorrect credentials"))
          ELSE Finish(Data([token |-> signToken(users[1], now), user |-> user]))
    /\ UNCHANGED <<now, authVars, dbVars, served, parked, cliVars>>

Mutation_login ==
    /\ rq.pc = "ready"
    /\ rq.op = "login"
    /\ LET user == FindOne(users, "email", rq.args.email)
       IN IF user = Null
          THEN Finish(AuthenticationError("Incorrect credentials"))
          ELSE IF ~isCorrectPassword(user, rq.args.password)
          THEN Finish(AuthenticationError("Incorrect credentials"))
          ELSE Finish(Data([token |-> signToken(user, now), user |-> user]))
    /\ UNCHANGED <<now, authVars, dbVars, served, parked, cliVars>>

\* mutant of Mutation_addThought: the thought is created before the identity
\* is checked
Mutation_addThought_createFirst ==
    /\ rq.pc = "ready"
    /\ rq.op = "addThought"
    /\ LET thought == [_id |-> Len(thoughts) + 1,
                       thoughtText |-> rq.args.thoughtText,
                       username |-> IF rq.context.user # Undef
                                    THEN rq.context.user.username ELSE "",
                       createdAt |-> Len(thoughts) + 1,
                       reactions |-> <<>>]
       IN /\ thoughts' = Append(thoughts, thought)
          /\ IF rq.context.user # Undef
             THEN rq' = [rq EXCEPT !.pc = "addThought:push", !.thought = thought]
             ELSE Finish(AuthenticationError("You need to be logged in!"))
    /\ UNCHANGED <<now, authVars, users, served, parked, cliVars>>

\* mutant of Mutation_addThought: the arguments are spread after the
\* username of the context, { username, ...args }
Mutation_addThought_argsLast ==
    /\ rq.pc = "ready"
    /\ rq.op = "addThought"
    /\ IF rq.context.user # Undef
       THEN \E accepted \in BOOLEAN :
               IF accepted
               THEN LET thought == rq.args
                                        @@ [username |-> rq.context.user.username]
                                        @@ [_id |-> Len(thoughts) + 1,
                                            createdAt |-> Len(thoughts) + 1,
                                            reactions |-> <<>>]
                    IN /\ thoughts' = Append(thoughts, thought)
                       /\ rq' = [rq EXCEPT !.pc = "addThought:push", !.thought = thought]
               ELSE /\ Finish(PersistenceError("Thought.create failed"))
                    /\ UNCHANGED thoughts
       ELSE /\ Finish(AuthenticationError("You need to be logged in!"))
            /\ UNCHANGED thoughts
    /\ UNCHANGED <<now, authVars, users, served, parked, cliVars>>

\* addThought up to its first await: the identity check and Thought.create,
\* which the persistence layer may refuse
Mutation_addThought ==
    /\ rq.pc = "ready"
    /\ rq.op = "addThought"
    /\ IF rq.context.user # Undef
       THEN \E accepted \in BOOLEAN :
               IF accepted
               THEN LET thought == [username |-> rq.context.user.username]
                                        @@ rq.args
                                        @@ [_id |-> Len(thoughts) + 1,
                                            createdAt |-> Len(thoughts) + 1,
                                            reactions |-> <<>>]
                    IN /\ thoughts' = Append(thoughts, thought)
                       /\ rq' = [rq EXCEPT !.pc = "addThought:push", !.thought = thought]
               ELSE /\ Finish(PersistenceError("Thought.create failed"))
                    /\ UNCHANGED thoughts
       ELSE /\ Finish(AuthenticationError("You need to be logged in!"))
            /\ UNCHANGED thoughts
    /\ UNCHANGED <<now, authVars, users, served, parked, cliVars>>

\* mutant of Mutation_addThought_push: the user is looked up by the username
\* argument of the first stored user instead of by the caller's _id
Mutation_addThought_push_wrongUser ==
    /\ rq.pc = "addThought:push"
    /\ \E accepted \in BOOLEAN :
          IF accepted
          THEN LET u == users[1]
               IN /\ users' = Replace(users, u,
                                 [u EXCEPT !.thoughts = Append(@, rq.thought._id)])
                  /\ Finish(Data(rq.thought))
          ELSE /\ Finish(PersistenceError("User.findByIdAndUpdate failed"))
               /\ UNCHANGED users
    /\ UNCHANGED <<now, authVars, thoughts, served, parked, cliVars>>

\* mutant of Mutation_addThought_push: the _id is pushed twice
Mutation_addThought_push_twice ==
    /\ rq.pc = "addThought:push"
    /\ \E accepted \in BOOLEAN :
          IF accepted
          THEN LET u == FindOne(users, "_id", rq.context.user._id)
               IN /\ users' = IF u = Null THEN users
                              ELSE Replace(users, u,
                                     [u EXCEPT !.thoughts =
                                        Append(Append(@, rq.thought._id), rq.thought._id)])
                  /\ Finish(Data(rq.thought))
          ELSE /\ Finish(PersistenceError("User.findByIdAndUpdate failed"))
               /\ UNCHANGED users
    /\ UNCHANGED <<now, authVars, thoughts, served, parked, cliVars>>

\* addThought after Thought.create: User.findByIdAndUpdate with $push
Mutation_addThought_push ==
    /\ rq.pc = "addThought:push"
    /\ \E accepted \in BOOLEAN :
          IF accepted
          THEN LET u == FindOne(users, "_id", rq.context.user._id)
               IN /\ users' = IF u = Null THEN users
                              ELSE Replace(users, u,
                                     [u EXCEPT !.thoughts = Append(@, rq.thought._id)])
                  /\ Finish(Data(rq.thought))
          ELSE /\ Finish(PersistenceError("User.findByIdAndUpdate failed"))
               /\ UNCHANGED users
    /\ UNCHANGED <<now, authVars, thoughts, served, parked, cliVars>>

\* mutant of Mutation_addReaction: the reactions are replaced by the new one
Mutation_addReaction_overwrites ==
    /\ rq.pc = "ready"
    /\ rq.op = "addReaction"
    /\ IF rq.context.user # Undef
       THEN \E accepted \in BOOLEAN :
               IF accepted
               THEN LET t == FindOne(thoughts, "_id", rq.args.thoughtId)
                        updatedThought ==
                            IF t = Null THEN Null
                            ELSE [t EXCEPT !.reactions =
                                    <<[reactionBody |-> rq.args.reactionBody,
                                       username |-> rq.context.user.username]>>]
                    IN /\ thoughts' = IF t = Null THEN thoughts
                                      ELSE Replace(thoughts, t, updatedThought)
                       /\ Finish(Data(updatedThought))
               ELSE /\ Finish(PersistenceError("Thought.findOneAndUpdate failed"))
                    /\ UNCHANGED thoughts
       ELSE /\ Finish(AuthenticationError("You need to be logged in!"))
            /\ UNCHANGED thoughts
    /\ UNCHANGED <<now, authVars, users, served, parked, cliVars>>

Mutation_addReaction ==
    /\ rq.pc = "ready"
    /\ rq.op = "addReaction"
    /\ IF rq.context.user # Undef
       THEN \E accepted \in BOOLEAN :
               IF accepted
               THEN LET t == FindOne(thoughts, "_id", rq.args.thoughtId)
                        updatedThought ==
                            IF t = Null THEN Null
                            ELSE [t EXCEPT !.reactions =
                                    Append(@, [reactionBody |-> rq.args.reactionBody,
                                               username |-> rq.context.user.username])]
                    IN /\ thoughts' = IF t = Null THEN thoughts
                                      ELSE Replace(thoughts, t, updatedThought)
                       /\ Finish(Data(updatedThought))
               ELSE /\ Finish(PersistenceError("Thought.findOneAndUpdate failed"))
                    /\ UNCHANGED thoughts
       ELSE /\ Finish(AuthenticationError("You need to be logged in!"))
            /\ UNCHANGED thoughts
    /\ UNCHANGED <<now, authVars, users, served, parked, cliVars>>

\* mutant of addToSet: $push, appended always
addToSet_push(arr, x) == Append(arr, x)

\* $addToSet: appended unless already an element
addToSet(arr, x) == IF x \in SeqToSet(arr) THEN arr ELSE Append(arr, x)

\* mutant of Mutation_addFriend: the rejection has a message of its own
Mutation_addFriend_ownMessage ==
    /\ rq.pc = "ready"
    /\ rq.op = "addFriend"
    /\ IF rq.context.user # Undef
       THEN \E accepted \in BOOLEAN :
               IF accepted
               THEN LET u == FindOne(users, "_id", rq.context.user._id)
                        updatedUser ==
                            IF u = Null THEN Null
                            ELSE [u EXCEPT !.friends = addToSet(@, rq.args.friendId)]
                    IN /\ users' = IF u = Null THEN users
                                   ELSE Replace(users, u, updatedUser)
                       /\ Finish(Data(IF updatedUser = Null THEN Null
                                      ELSE [updatedUser EXCEPT !.friends =
                                              populateIds(@, users')]))
               ELSE /\ Finish(PersistenceError("User.findOneAndUpdate failed"))
                    /\ UNCHANGED users
       ELSE /\ Finish(AuthenticationError("Log in to add friends"))
            /\ UNCHANGED users
    /\ UNCHANGED <<now, authVars, thoughts, served, parked, cliVars>>

Mutation_addFriend ==
    /\ rq.pc = "ready"
    /\ rq.op = "addFriend"
    /\ IF rq.context.user # Undef
       THEN \E accepted \in BOOLEAN :
               IF accepted
               THEN LET u == FindOne(users, "_id", rq.context.user._id)
                        updatedUser ==
                            IF u = Null THEN Null
                            ELSE [u EXCEPT !.friends = addToSet(@, rq.args.friendId)]
                    IN /\ users' = IF u = Null THEN users
                                   ELSE Replace(users, u, updatedUser)
                       /\ Finish(Data(IF updatedUser = Null THEN Null
                                      ELSE [updatedUser EXCEPT !.friends =
                                              populateIds(@, users')]))
               ELSE /\ Finish(PersistenceError("User.findOneAndUpdate failed"))
                    /\ UNCHANGED users
       ELSE /\ Finish(AuthenticationError("You need to be logged in!"))
            /\ UNCHANGED users
    /\ UNCHANGED <<now, authVars, thoughts, served, parked, cliVars>>

\* the response is sent and the request's context discarded
Respond ==
    /\ rq.pc = "done"
    /\ rq' = IdleRq
    /\ UNCHANGED <<now, authVars, dbVars, served, parked, cliVars>>

Next ==
    \/ \E r \in Requests(now), o \in Operations : Receive(r, o)
    \/ Query
    \/ Mutation_addUser
    \/ Mutation_login
    \/ Mutation_addThought
    \/ Mutation_addThought_push
    \/ Mutation_addReaction
    \/ Mutation_addFriend
    \/ Respond

Spec == Init /\ [][Next]_vars

(***************************************************************************)
(* SpecConc: two requests in progress at once.  A resolver runs until its  *)
(* next await; the event loop then goes on with either request.  rq is the *)
(* request that runs, parked the one that waits.                           *)
(***************************************************************************)
ConcOperations ==
    {[op |-> "addReaction", args |-> [thoughtId |-> 1, reactionBody |-> b]] :
         b \in {"nice", "hm"}}
        \cup {[op |-> "addFriend", args |-> [friendId |-> f]] : f \in {"id1", "id2"}}
        \cup {[op |-> "addThought", args |-> [thoughtText |-> "hello"]],
              [op |-> "me", args |-> Nil]}

ConcRequests(t) ==
    {Request(Undef, Undef, h) :
        h \in {StrV(<<>>), Bearer(ForgedToken(t)), Bearer(signToken(Alice, t)),
               Bearer(signToken(Bob, t))}}

InitConc ==
    /\ now = expiration
    /\ req = NoRequest
    /\ out = NoCall
    /\ users = <<[UserDoc(Alice, "pw-alice") EXCEPT !.thoughts = <<1>>],
                 UserDoc(Bob, "pw-bob")>>
    /\ thoughts = <<FirstThought>>
    /\ rq = IdleRq
    /\ served = 0
    /\ parked = IdleRq
    /\ idToken = NoClient
    /\ cache = NoClient
    /\ form = NoClient
    /\ cpc = "off"

\* the running request awaits, or the slot is free: the other request goes on
Switch ==
    /\ rq # parked
    /\ rq' = parked
    /\ parked' = rq
    /\ UNCHANGED <<now, authVars, dbVars, served, cliVars>>

NextConc ==
    \/ \E r \in ConcRequests(now), o \in ConcOperations : Receive(r, o)
    \/ Query
    \/ Mutation_addThought
    \/ Mutation_addThought_push
    \/ Mutation_addReaction
    \/ Mutation_addFriend
    \/ Respond
    \/ Switch

SpecConc == InitConc /\ [][NextConc]_vars

(***************************************************************************)
(* SpecCache: one browser client.  The Apollo cache holds the views of     *)
(* QUERY_THOUGHTS (the feed of Home) and QUERY_ME (the profile); the       *)
(* ThoughtForm sends addThought and patches both views in its update       *)
(* function.  The form is taken as a component mounted on some page ("the  *)
(* homepage and the Profile page", ThoughtForm's header comment): which    *)
(* views are populated when it is used is not tied to a page.              *)
(***************************************************************************)
Absent == [k |-> "absent"]

MaxChars == 280

Texts == {"", "hello", "a text of 281 characters"}

TextLength(v) ==
    CASE v = "" -> 0
      [] v = "hello" -> 5
      [] v = "nice" -> 4
      [] OTHER -> 281

\* mutant of authLink: the scheme word is sent whether or not a token is
\* saved
authLink_always(token) ==
    Request(Undef, Undef,
            IF Truthy(token) THEN Bearer(token.s) ELSE StrV(<<BearerWord, SP>>))

\* authLink: the authorization header of every request of the client
authLink(token) ==
    Request(Undef, Undef, IF Truthy(token) THEN Bearer(token.s) ELSE StrV(<<>>))

\* cache.readQuery({ query }): the view, or a failure when it was never
\* written (an exception, or null whose destructuring throws)
readQuery(c, query) ==
    IF c[query] = Absent THEN [ok |-> FALSE] ELSE [ok |-> TRUE, data |-> c[query]]

writeQuery(c, query, data) == [c EXCEPT ![query] = data]

\* mutant of update: the new thought is put at the wrong end of each view
update_wrongEnds(c, addThought) ==
    LET feed == readQuery(c, "thoughts")
        c1 == IF feed.ok
              THEN writeQuery(c, "thoughts",
                              [thoughts |-> Append(feed.data.thoughts, addThought)])
              ELSE c
        profile == readQuery(c1, "me")
    IN IF profile.ok
       THEN [threw |-> FALSE,
             cache |-> writeQuery(c1, "me",
                         [me |-> [profile.data.me EXCEPT !.thoughts = <<addThought>> \o @]])]
       ELSE [threw |-> TRUE, cache |-> c1]

\* mutant of update: the read of the feed is not guarded
update_unguardedFeed(c, addThought) ==
    LET feed == readQuery(c, "thoughts")
        profile == readQuery(c, "me")
    IN IF ~feed.ok
       THEN [threw |-> TRUE, cache |-> c]
       ELSE LET c1 == writeQuery(c, "thoughts",
                                 [thoughts |-> <<addThought>> \o feed.data.thoughts])
            IN IF profile.ok
               THEN [threw |-> FALSE,
                     cache |-> writeQuery(c1, "me",
                                 [me |-> [profile.data.me EXCEPT
                                            !.thoughts = Append(@, addThought)]])]
               ELSE [threw |-> TRUE, cache |-> c1]

\* mutant of update: only the feed is patched
update_feedOnly(c, addThought) ==
    LET feed == readQuery(c, "thoughts")
        c1 == IF feed.ok
              THEN writeQuery(c, "thoughts",
                              [thoughts |-> <<addThought>> \o feed.data.thoughts])
              ELSE c
    IN [threw |-> FALSE, cache |-> c1]

\* update(cache, { data: { addThought } }) of useMutation(ADD_THOUGHT)
update(c, addThought) ==
    LET feed == readQuery(c, "thoughts")
        \* try { ... } catch (e) { console.error(e) }
        c1 == IF feed.ok
              THEN writeQuery(c, "thoughts",
                              [thoughts |-> <<addThought>> \o feed.data.thoughts])
              ELSE c
        profile == readQuery(c1, "me")
    IN IF profile.ok
       THEN [threw |-> FALSE,
             cache |-> writeQuery(c1, "me",
                         [me |-> [profile.data.me EXCEPT !.thoughts = Append(@, addThought)]])]
       ELSE [threw |-> TRUE, cache |-> c1]

InitCache ==
    /\ now = expiration
    /\ req = NoRequest
    /\ out = NoCall
    /\ users = <<[UserDoc(Alice, "pw-alice") EXCEPT !.thoughts = <<1>>],
                 UserDoc(Bob, "pw-bob")>>
    /\ thoughts = <<FirstThought>>
    /\ rq = IdleRq
    /\ served = 0
    /\ parked = [pc |-> "off"]
    /\ idToken \in {StrV(signToken(Alice, now)), StrV(signToken(Alice, 0))}
    /\ cache = [thoughts |-> Absent, me |-> Absent]
    /\ form = [thoughtText |-> "", characterCount |-> 0, error |-> FALSE,
               variables |-> Nil]
    /\ cpc = "idle"

\* Home: useQuery(QUERY_THOUGHTS) fills the feed view when it is not cached
Home_useQuery ==
    /\ cache.thoughts = Absent
    /\ cache' = writeQuery(cache, "thoughts",
                           [thoughts |-> Query_thoughts([username |-> ""]).value])
    /\ UNCHANGED <<now, authVars, srvVars, idToken, form, cpc>>

\* Profile: useQuery(QUERY_ME) fills the profile view when it is not cached
\* and the server knows the caller
Profile_useQuery ==
    /\ cache.me = Absent
    /\ LET c == authMiddleware(authLink(idToken), now)
           me == Query_me(c.req)
       IN /\ c.kind = "return"
          /\ me.kind = "data"
          /\ me.value # Null
          /\ cache' = writeQuery(cache, "me", [me |-> me.value])
    /\ UNCHANGED <<now, authVars, srvVars, idToken, form, cpc>>

handleChange(value) ==
    /\ form' = IF TextLength(value) <= MaxChars
               THEN [form EXCEPT !.thoughtText = value,
                                 !.characterCount = TextLength(value)]
               ELSE form
    /\ form' # form
    /\ UNCHANGED <<now, authVars, srvVars, idToken, cache, cpc>>

\* handleFormSubmit up to its await: the mutation is sent
handleFormSubmit ==
    /\ cpc = "idle"
    /\ served < MaxRequests
    /\ cpc' = "awaiting"
    /\ form' = [form EXCEPT !.error = FALSE,
                            !.variables = [thoughtText |-> form.thoughtText]]
    /\ UNCHANGED <<now, authVars, srvVars, idToken, cache>>

\* the server receives the mutation the client sent
ReceiveMutation ==
    /\ cpc = "awaiting"
    /\ Receive(authLink(idToken), [op |-> "addThought", args |-> form.variables])

\* mutant of MutationCompleted: update runs for a failed mutation too, on
\* the thought as it was submitted
MutationCompleted_updatesAlways ==
    /\ cpc = "awaiting"
    /\ rq.pc = "done"
    /\ IF rq.result.kind = "data"
       THEN LET u == update(cache, rq.result.value)
            IN /\ cache' = u.cache
               /\ form' = IF u.threw
                          THEN [form EXCEPT !.error = TRUE, !.variables = Nil]
                          ELSE [form EXCEPT !.thoughtText = "", !.characterCount = 0,
                                            !.variables = Nil]
       ELSE /\ cache' = update(cache, form.variables).cache
            /\ form' = [form EXCEPT !.error = TRUE, !.variables = Nil]
    /\ cpc' = "idle"
    /\ rq' = IdleRq
    /\ UNCHANGED <<now, authVars, dbVars, served, parked, idToken>>

\* the response arrives: on success update runs, and handleFormSubmit goes on
\* after its await, into the catch block if the mutation or update failed
MutationCompleted ==
    /\ cpc = "awaiting"
    /\ rq.pc = "done"
    /\ IF rq.result.kind = "data"
       THEN LET u == update(cache, rq.result.value)
            IN /\ cache' = u.cache
               /\ form' = IF u.threw
                          THEN [form EXCEPT !.error = TRUE, !.variables = Nil]
                          ELSE [form EXCEPT !.thoughtText = "", !.characterCount = 0,
                                            !.variables = Nil]
       ELSE /\ cache' = cache
            /\ form' = [form EXCEPT !.error = TRUE, !.variables = Nil]
    /\ cpc' = "idle"
    /\ rq' = IdleRq
    /\ UNCHANGED <<now, authVars, dbVars, served, parked, idToken>>

NextCache ==
    \/ Home_useQuery
    \/ Profile_useQuery
    \/ \E value \in Texts : handleChange(value)
    \/ handleFormSubmit
    \/ ReceiveMutation
    \/ Mutation_addThought
    \/ Mutation_addThought_push
    \/ MutationCompleted

SpecCache == InitCache /\ [][NextCache]_vars

(***************************************************************************)
(* SpecSync: the three writes of one browser client.  Besides the feed and *)
(* the profile view the cache holds the views of QUERY_THOUGHT (the page   *)
(* of one thought, where the ReactionForm is) and of QUERY_USER (another   *)
(* user's profile, where the Add Friend button is).  The ReactionForm and  *)
(* the button pass no update function: the InMemoryCache keeps one object  *)
(* per __typename and _id, so the Thought or User a mutation returns       *)
(* replaces that object wherever a populated view holds it.                *)
(***************************************************************************)
ReplaceById(docs, e) ==
    [i \in 1..Len(docs) |-> IF docs[i]._id = e._id THEN e ELSE docs[i]]

\* the cache after the Thought t, returned by a mutation, was written to it
mergeThought(c, t) ==
    [q \in DOMAIN c |->
        CASE c[q] = Absent -> Absent
          [] q = "thoughts" -> [thoughts |-> ReplaceById(c[q].thoughts, t)]
          [] q = "me" -> [me |-> [c[q].me EXCEPT !.thoughts = ReplaceById(@, t)]]
          [] q = "thought" ->
                [thought |-> IF c[q].thought # Null /\ c[q].thought._id = t._id
                             THEN t ELSE c[q].thought]
          [] q = "user" ->
                [user |-> IF c[q].user = Null THEN Null
                          ELSE [c[q].user EXCEPT !.thoughts = ReplaceById(@, t)]]]

\* the cache after the User u, returned by addFriend with its friends, was
\* written to it
mergeUser(c, u) ==
    [q \in DOMAIN c |->
        CASE c[q] = Absent -> Absent
          [] q = "me" -> [me |-> IF c[q].me._id = u._id
                                 THEN [c[q].me EXCEPT !.friends = u.friends]
                                 ELSE c[q].me]
          [] q = "user" ->
                [user |-> IF c[q].user # Null /\ c[q].user._id = u._id
                          THEN [c[q].user EXCEPT !.friends = u.friends]
                          ELSE c[q].user]
          [] OTHER -> c[q]]

InitSync ==
    /\ now = expiration
    /\ req = NoRequest
    /\ out = NoCall
    /\ users = <<[UserDoc(Alice, "pw-alice") EXCEPT !.thoughts = <<1>>],
                 UserDoc(Bob, "pw-bob")>>
    /\ thoughts = <<FirstThought>>
    /\ rq = IdleRq
    /\ served = 0
    /\ parked = [pc |-> "off"]
    /\ idToken \in {StrV(signToken(Alice, now)), StrV(signToken(Alice, 0))}
    /\ cache = [thoughts |-> Absent, me |-> Absent, thought |-> Absent, user |-> Absent]
    /\ form = [thoughtText |-> "", characterCount |-> 0, error |-> FALSE,
               variables |-> Nil, reactionBody |-> "", reactionError |-> FALSE]
    /\ cpc = "idle"

\* SingleThought: useQuery(QUERY_THOUGHT) for the thought of the page
SingleThought_useQuery ==
    /\ cache.thought = Absent
    /\ cache' = writeQuery(cache, "thought",
                           [thought |-> Query_thought([_id |-> 1]).value])
    /\ UNCHANGED <<now, authVars, srvVars, idToken, form, cpc>>

\* Profile with a username in the URL: useQuery(QUERY_USER)
Profile_useQuery_user ==
    /\ cache.user = Absent
    /\ cache' = writeQuery(cache, "user",
                           [user |-> Query_user([username |-> "bob"]).value])
    /\ UNCHANGED <<now, authVars, srvVars, idToken, form, cpc>>

ReactionForm_handleChange(value) ==
    /\ form' = IF TextLength(value) <= MaxChars
               THEN [form EXCEPT !.reactionBody = value]
               ELSE form
    /\ form' # form
    /\ UNCHANGED <<now, authVars, srvVars, idToken, cache, cpc>>

\* ReactionForm handleFormSubmit up to its await; the form is on the page of
\* a thought that was loaded
ReactionForm_handleFormSubmit ==
    /\ cpc = "idle"
    /\ served < MaxRequests
    /\ cache.thought # Absent
    /\ cache.thought.thought # Null
    /\ cpc' = "awaitingReaction"
    /\ form' = [form EXCEPT !.reactionError = FALSE,
                            !.variables = [reactionBody |-> form.reactionBody,
                                           thoughtId |-> cache.thought.thought._id]]
    /\ UNCHANGED <<now, authVars, srvVars, idToken, cache>>

ReceiveReaction ==
    /\ cpc = "awaitingReaction"
    /\ Receive(authLink(idToken), [op |-> "addReaction", args |-> form.variables])

\* the response of addReaction arrives: the returned Thought is written to
\* the cache, and handleFormSubmit goes on after its await
ReactionCompleted ==
    /\ cpc = "awaitingReaction"
    /\ rq.pc = "done"
    /\ IF rq.result.kind = "data"
       THEN /\ cache' = IF rq.result.value = Null THEN cache
                        ELSE mergeThought(cache, rq.result.value)
            /\ form' = [form EXCEPT !.reactionBody = "", !.variables = Nil]
       ELSE /\ cache' = cache
            /\ form' = [form EXCEPT !.reactionError = TRUE, !.variables = Nil]
    /\ cpc' = "idle"
    /\ rq' = IdleRq
    /\ UNCHANGED <<now, authVars, dbVars, served, parked, idToken>>

\* Profile handleClick up to its await; the button is on the loaded profile
\* of another user
Profile_handleClick ==
    /\ cpc = "idle"
    /\ served < MaxRequests
    /\ cache.user # Absent
    /\ cache.user.user # Null
    /\ cpc' = "awaitingFriend"
    /\ form' = [form EXCEPT !.variables = [friendId |-> cache.user.user._id]]
    /\ UNCHANGED <<now, authVars, srvVars, idToken, cache>>

ReceiveFriend ==
    /\ cpc = "awaitingFriend"
    /\ Receive(authLink(idToken), [op |-> "addFriend", args |-> form.variables])

\* the response of addFriend arrives: the returned User is written to the
\* cache; an error is logged
FriendCompleted ==
    /\ cpc = "awaitingFriend"
    /\ rq.pc = "done"
    /\ cache' = IF rq.result.kind = "data" /\ rq.result.value # Null
                THEN mergeUser(cache, rq.result.value)
                ELSE cache
    /\ form' = [form EXCEPT !.variables = Nil]
    /\ cpc' = "idle"
    /\ rq' = IdleRq
    /\ UNCHANGED <<now, authVars, dbVars, served, parked, idToken>>

NextSync ==
    \/ Home_useQuery
    \/ Profile_useQuery
    \/ SingleThought_useQuery
    \/ Profile_useQuery_user
    \/ \E value \in {"hello"} : handleChange(value)
    \/ handleFormSubmit
    \/ ReceiveMutation
    \/ Mutation_addThought
    \/ Mutation_addThought_push
    \/ MutationCompleted
    \/ \E value \in {"nice"} : ReactionForm_handleChange(value)
    \/ ReactionForm_handleFormSubmit
    \/ ReceiveReaction
    \/ Mutation_addReaction
    \/ ReactionCompleted
    \/ Profile_handleClick
    \/ ReceiveFriend
    \/ Mutation_addFriend
    \/ FriendCompleted

SpecSync == InitSync /\ [][NextSync]_vars

(***************************************************************************)
(* SpecSession: one browser session.  idToken is the id_token entry of     *)
(* localStorage (Null when there is none), cpc is window.location, and     *)
(* form keeps what the session last did: the last AuthService.login or     *)
(* logout call, and what the Header last rendered from Auth.loggedIn().    *)
(* The requests of the session go through authLink to the server.          *)
(***************************************************************************)
\* decode of jwt-decode: the payload, or InvalidTokenError for a value that
\* is not a well-formed token
decode(token) ==
    LET d == jwt_decode(token)
    IN IF d.ok THEN [threw |-> FALSE, value |-> d.payload] ELSE [threw |-> TRUE]

\* AuthService.isTokenExpired(token) at time t (Date.now() / 1000)
isTokenExpired(token, t) ==
    LET decoded == decode(token)
    IN IF decoded.threw THEN FALSE ELSE decoded.value.exp < t

\* AuthService.loggedIn() for the saved token at time t
loggedIn(token, t) == Truthy(token) /\ ~isTokenExpired(token, t)

\* the values Auth.login is called with at time t: the token of a login or
\* addUser response, a token not signed by the server, a string that is no
\* token
LoginArguments(t) ==
    {StrV(signToken(a, t)) : a \in Assertions}
        \cup {StrV(ForgedToken(t)), StrV(<<CharX>>)}

NotRendered == [k |-> "none"]

InitSession ==
    /\ now = 0
    /\ req = NoRequest
    /\ out = NoCall
    /\ users = <<[UserDoc(Alice, "pw-alice") EXCEPT !.thoughts = <<1>>],
                 UserDoc(Bob, "pw-bob")>>
    /\ thoughts = <<FirstThought>>
    /\ rq = IdleRq
    /\ served = 0
    /\ parked = [pc |-> "off"]
    /\ idToken = Null
    /\ cache = NoClient
    /\ form = [last |-> [method |-> "none"], rendered |-> NotRendered]
    /\ cpc = "/"

\* mutant of login: a saved token is kept, the new one is dropped
login_keepsFirst(token) ==
    /\ idToken' = IF idToken = Null THEN token ELSE idToken
    /\ cpc' = "/"
    /\ form' = [last |-> [method |-> "login", idToken |-> token],
                rendered |-> NotRendered]
    /\ UNCHANGED <<now, authVars, srvVars, cache>>

\* AuthService.login(idToken): the token is saved and the page reloaded
login(token) ==
    /\ idToken' = token
    /\ cpc' = "/"
    /\ form' = [last |-> [method |-> "login", idToken |-> token],
                rendered |-> NotRendered]
    /\ UNCHANGED <<now, authVars, srvVars, cache>>

\* AuthService.logout(): the token is removed and the page reloaded
logout ==
    /\ idToken' = Null
    /\ cpc' = "/"
    /\ form' = [last |-> [method |-> "logout"], rendered |-> NotRendered]
    /\ UNCHANGED <<now, authVars, srvVars, cache>>

\* the Header renders its links from Auth.loggedIn()
Header ==
    /\ form' = [form EXCEPT !.rendered = [loggedIn |-> loggedIn(idToken, now),
                                          token |-> idToken, at |-> now]]
    /\ form' # form
    /\ UNCHANGED <<now, authVars, srvVars, idToken, cache, cpc>>

\* a query of the session is sent through authLink: Home's QUERY_ME_BASIC
Home_useQuery_me == Receive(authLink(idToken), [op |-> "me", args |-> Nil])

NextSession ==
    \/ \E token \in LoginArguments(now) : login(token)
    \/ logout
    \/ Header
    \/ Tick
    \/ Home_useQuery_me
    \/ Query
    \/ Respond

SpecSession == InitSession /\ [][NextSession]_vars

(***************************************************************************)
(* SpecPage: the pages around the ThoughtForm.  form also keeps the path   *)
(* the router shows; the Profile page renders the ThoughtForm only after   *)
(* its early returns, and only without a username in the path.             *)
(***************************************************************************)
Paths == {"/", "/profile", "/profile/alice", "/profile/bob"}

\* useParams() of the route /profile/:username?
useParams(pathname) ==
    CASE pathname = "/profile/alice" -> [username |-> StrV(<<"alice">>)]
      [] pathname = "/profile/bob" -> [username |-> StrV(<<"bob">>)]
      [] OTHER -> [username |-> Undef]

\* AuthService.getProfile(): the decoded saved token
getProfile(token) == decode(token)

InitPage ==
    /\ now = expiration
    /\ req = NoRequest
    /\ out = NoCall
    /\ users = <<[UserDoc(Alice, "pw-alice") EXCEPT !.thoughts = <<1>>],
                 UserDoc(Bob, "pw-bob")>>
    /\ thoughts = <<FirstThought>>
    /\ rq = IdleRq
    /\ served = 0
    /\ parked = [pc |-> "off"]
    /\ idToken \in {Null, StrV(signToken(Alice, now)), StrV(signToken(Alice, 0))}
    /\ cache = [thoughts |-> Absent, me |-> Absent, user |-> Absent]
    /\ form = [thoughtText |-> "", characterCount |-> 0, error |-> FALSE,
               variables |-> Nil, pathname |-> "/"]
    /\ cpc = "idle"

\* a Link of the router is followed; a ThoughtForm that is unmounted loses
\* what was typed
Link(to) ==
    /\ form.pathname # to
    /\ form' = [form EXCEPT !.pathname = to, !.thoughtText = "",
                            !.characterCount = 0, !.error = FALSE]
    /\ UNCHANGED <<now, authVars, srvVars, idToken, cache, cpc>>

\* Profile: the path names the user who is logged in
Profile_Redirect ==
    /\ form.pathname \in {"/profile/alice", "/profile/bob"}
    /\ loggedIn(idToken, now)
    /\ ~getProfile(idToken).threw
    /\ StrV(<<getProfile(idToken).value.data.username>>)
          = useParams(form.pathname).username
    /\ form' = [form EXCEPT !.pathname = "/profile"]
    /\ UNCHANGED <<now, authVars, srvVars, idToken, cache, cpc>>

\* mutant of Profile_rendersThoughtForm: the early returns for loading and
\* for a missing user are left out
Profile_rendersThoughtForm_always ==
    /\ form.pathname \in {"/profile", "/profile/alice", "/profile/bob"}
    /\ ~Truthy(useParams(form.pathname).username)

\* Profile renders <ThoughtForm />: past the early returns for loading and
\* for a missing user, and with no username in the path
Profile_rendersThoughtForm ==
    /\ form.pathname \in {"/profile", "/profile/alice", "/profile/bob"}
    /\ LET userParam == useParams(form.pathname).username
           data == IF Truthy(userParam) THEN cache.user ELSE cache.me
           loading == data = Absent
           user == IF loading THEN Undef
                   ELSE IF Truthy(userParam) THEN data.user ELSE data.me
       IN /\ ~loading
          /\ user # Undef
          /\ user # Null
          /\ user.username # ""
          /\ ~Truthy(userParam)

Page_Home ==
    /\ form.pathname = "/"
    /\ Home_useQuery

Page_Profile_me ==
    /\ form.pathname = "/profile"
    /\ Profile_useQuery

Page_Profile_user ==
    /\ form.pathname = "/profile/bob"
    /\ Profile_useQuery_user

Page_handleChange(value) ==
    /\ Profile_rendersThoughtForm
    /\ handleChange(value)

Page_handleFormSubmit ==
    /\ Profile_rendersThoughtForm
    /\ handleFormSubmit

NextPage ==
    \/ \E to \in Paths : Link(to)
    \/ Profile_Redirect
    \/ Page_Home
    \/ Page_Profile_me
    \/ Page_Profile_user
    \/ \E value \in {"hello"} : Page_handleChange(value)
    \/ Page_handleFormSubmit
    \/ ReceiveMutation
    \/ Mutation_addThought
    \/ Mutation_addThought_push
    \/ MutationCompleted

SpecPage == InitPage /\ [][NextPage]_vars

(***************************************************************************)
(* Claims about the request identity resolver (SpecAuth)                   *)
(***************************************************************************)
Called == out.kind # "none"

\* v holds, as one of its symbols, a token the server issued that is inside
\* its validity window at time t
CarriesValidToken(v, t) ==
    /\ v.k = "string"
    /\ \E j \in 1..Len(v.s) :
          \E a \in Assertions, i \in 0..t :
             <<v.s[j]>> = signToken(a, i) /\ t < i + expiration

Carriers(r) == {r.body.token, r.query.token, r.headers.authorization}

\* some carrier holds a credential and no carrier holds a valid token
BadCredentialRequest(r, t) ==
    /\ \E v \in Carriers(r) : Truthy(v)
    /\ \A v \in Carriers(r) : ~CarriesValidToken(v, t)

\* C1: a request whose credential is malformed, wrongly signed or expired,
\* in whatever carrier and of whatever shape, is resolved to a context with
\* no user, and authMiddleware raises no error.
C1_BadCredentialIsAnonymousAndNeverThrows ==
    (Called /\ BadCredentialRequest(req, out.at))
        => (out.kind = "return" /\ out.req.user = Undef)

\* C5: the token signToken(A) produced, verified inside its validity window,
\* attaches user = A.
C5_VerifyOfSignIsIdentity ==
    \A a \in Assertions, i \in 0..MaxClock :
        (/\ Called
         /\ out.verified = <<StrV(signToken(a, i))>>
         /\ i <= out.at
         /\ out.at < i + expiration)
            => (out.kind = "return" /\ out.req.user = a)

C5_Witness ==
    /\ Called
    /\ out.verified = <<StrV(signToken(Bob, 1))>>
    /\ out.at = 2
    /\ out.req.user = Bob

IsJwt(v) == v.k = "string" /\ Len(v.s) = 1 /\ v.s[1].c = "jwt"

\* C6: a token older than the maximum lifetime is never accepted, whether
\* or not its signature is valid: the request has no identity.
C6_ExpiredTokenRejected ==
    (/\ Called
     /\ Len(out.verified) = 1
     /\ IsJwt(out.verified[1])
     /\ out.at - out.verified[1].s[1].payload.iat > expiration)
        => (out.kind = "return" /\ out.req.user = Undef)

C6_Witness ==
    /\ Called
    /\ out.verified = <<StrV(signToken(Alice, 0))>>
    /\ out.at = expiration + 1
    /\ out.req.user = Undef

\* the carrier that takes precedence: body, then query, then header
Chosen(r) ==
    IF Truthy(r.body.token) THEN r.body.token
    ELSE IF Truthy(r.query.token) THEN r.query.token
    ELSE r.headers.authorization

\* the identities a carrier's value can yield at time t: that of the valid
\* token that is its last space-separated segment
IdentitiesIn(v, t) ==
    IF v.k # "string" THEN {}
    ELSE {a \in Assertions :
            \E i \in 0..t : /\ t < i + expiration
                            /\ \E j \in 0..Len(v.s) :
                                  /\ SubSeq(v.s, j + 1, Len(v.s))
                                        \in {signToken(a, i), signToken(a, i) \o <<TAB>>}
                                  /\ (j = 0 \/ v.s[j] = SP)}

\* C7: the credential verified is taken from the body if it carries one,
\* else from the query, else from the header.
C7_CarrierPrecedence ==
    (Called /\ out.kind = "return")
        => /\ out.req.user # Undef => out.req.user \in IdentitiesIn(Chosen(req), out.at)
           /\ \A a \in Assertions :
                 Chosen(req) = StrV(signToken(a, out.at)) => out.req.user = a

C7_Witness ==
    /\ Called
    /\ req.body.token = StrV(signToken(Bob, out.at))
    /\ req.query.token = StrV(signToken(Alice, out.at))
    /\ req.headers.authorization = StrV(<<BearerWord, SP>> \o signToken(Alice, out.at))
    /\ out.req.user = Bob

(***************************************************************************)
(* Claims about the resolvers (Spec)                                       *)
(***************************************************************************)
NoCredential(r) == \A v \in Carriers(r) : ~Truthy(v)

PublicReads == {"users", "user", "thoughts", "thought"}

\* C2: a request with no credential in body, query or header (an empty
\* Authorization header included) gets a context without user, and the
\* public reads users, user, thoughts and thought succeed on it.
C2_NoCredentialIsAnonymousAndReadsSucceed ==
    (rq.pc \in {"ready", "done"} /\ NoCredential(rq.request))
        => /\ rq.context # Nil
           /\ rq.context.user = Undef
           /\ (rq.pc = "done" /\ rq.op \in PublicReads) => rq.result.kind = "data"

C2_Witness ==
    /\ rq.pc = "done"
    /\ rq.request = Request(Undef, Undef, StrV(<<>>))
    /\ rq.context.user = Undef
    /\ rq.op = "thoughts"
    /\ rq.result = Data(<<FirstThought>>)

NeedsActor == {"addThought", "addReaction", "addFriend"}

\* C3: addThought, addReaction and addFriend called without context.user fail
\* and leave the stored users and thoughts exactly as they were.
C3_RejectedMutationTouchesNothing ==
    [][(rq.pc = "ready" /\ rq.op \in NeedsActor /\ rq.context.user = Undef)
          => /\ users' = users
             /\ thoughts' = thoughts
             /\ rq'.pc = "done"
             /\ rq'.result.kind = "error"]_vars

C3_Witness ==
    /\ rq.pc = "done"
    /\ rq.op = "addThought"
    /\ rq.context # Nil
    /\ rq.context.user = Undef
    /\ rq.result.kind = "error"
    /\ thoughts = <<FirstThought>>

\* what a completed operation acted as: the username it stamped, the user
\* record it changed or read
ActedAs(id) ==
    CASE rq.op = "addThought" ->
            /\ rq.result.value.username = id.username
            /\ \A i \in 1..Len(users) :
                  (rq.result.value._id \in SeqToSet(users[i].thoughts))
                      <=> (users[i]._id = id._id)
      [] rq.op = "addReaction" ->
            rq.result.value # Null =>
                rq.result.value.reactions[Len(rq.result.value.reactions)].username
                    = id.username
      [] rq.op = "addFriend" ->
            rq.result.value # Null => rq.result.value._id = id._id
      [] rq.op = "me" ->
            rq.result.value # Null => rq.result.value._id = id._id

\* C4: the operations that need an actor fail with an authentication error
\* when context.user is absent, and act as exactly context.user when it is
\* present.
C4_IdentityCheck ==
    (rq.pc = "done" /\ rq.op \in NeedsActor \cup {"me"} /\ rq.context # Nil)
        => /\ rq.context.user = Undef =>
                 (rq.result.kind = "error" /\ rq.result.code = "UNAUTHENTICATED")
           /\ (rq.context.user # Undef /\ rq.result.kind = "data") =>
                 ActedAs(rq.context.user)

C4_Witness ==
    /\ rq.pc = "done"
    /\ rq.op = "addThought"
    /\ rq.context # Nil
    /\ rq.context.user = Bob
    /\ rq.result.kind = "data"
    /\ rq.result.value.username = "bob"
    /\ users[2].thoughts = <<rq.result.value._id>>

\* C8: login with a known email and a wrong password and login with an
\* unknown email fail with the same error kind and message, and no token.
C8_LoginFailuresIndistinguishable ==
    (rq.pc = "done" /\ rq.op = "login" /\ rq.context # Nil)
        => LET user == FindOne(users, "email", rq.args.email)
           IN (user = Null \/ user.password # bcryptHash(rq.args.password))
                 => rq.result = AuthenticationError("Incorrect credentials")

C8_Witness ==
    /\ rq.pc = "done"
    /\ rq.op = "login"
    /\ rq.context # Nil
    /\ rq.args = [email |-> "alice@mail", password |-> "guess"]
    /\ rq.result = AuthenticationError("Incorrect credentials")

(***************************************************************************)
(* Claims about the client cache update (SpecCache)                        *)
(***************************************************************************)
\* the response of a successful addThought is about to be handled
ThoughtReturned ==
    /\ cpc = "awaiting"
    /\ rq.pc = "done"
    /\ rq.result.kind = "data"

\* the step in which the client handles that response
UpdateRuns == cpc' = "idle"

\* C9: with the feed view populated and the profile view never populated,
\* the cache update after a successful addThought puts the new thought first
\* in the feed, leaves the profile view absent and raises no error.
C9_ProfileAbsentNoError ==
    [][(ThoughtReturned /\ UpdateRuns /\ cache.thoughts # Absent /\ cache.me = Absent)
          => /\ cache'.thoughts = [thoughts |-> <<rq.result.value>> \o cache.thoughts.thoughts]
             /\ cache'.me = Absent
             /\ form'.error = FALSE]_vars

\* C10: with both views populated, the cache update after a successful
\* addThought puts the new thought first in the feed and last in the profile
\* view's thoughts, and changes no other field of the profile view.
C10_BothViewsUpdated ==
    [][(ThoughtReturned /\ UpdateRuns /\ cache.thoughts # Absent /\ cache.me # Absent)
          => /\ cache'.thoughts = [thoughts |-> <<rq.result.value>> \o cache.thoughts.thoughts]
             /\ cache'.me = [me |-> [cache.me.me EXCEPT
                                       !.thoughts = Append(@, rq.result.value)]]]_vars

C10_Witness ==
    /\ cpc = "idle"
    /\ Len(thoughts) = 2
    /\ cache.thoughts = [thoughts |-> <<thoughts[2], FirstThought>>]
    /\ cache.me # Absent
    /\ cache.me.me.thoughts = <<FirstThought, thoughts[2]>>
    /\ cache.me.me.username = "alice"
    /\ form.error = FALSE

(***************************************************************************)
(* Claims about the views of the client cache (SpecSync)                   *)
(***************************************************************************)
\* the response of a successful write is handled in this step
WriteCompletes ==
    /\ cpc # "idle"
    /\ cpc' = "idle"
    /\ rq.pc = "done"
    /\ rq.result.kind = "data"
    /\ rq.result.value # Null

\* every document of docs with the _id of e is e
ShowsAs(docs, e) == \A i \in 1..Len(docs) : docs[i]._id = e._id => docs[i] = e

IsPrefix(a, b) == Len(a) <= Len(b) /\ SubSeq(b, 1, Len(a)) = a

\* the running request is an authenticated addReaction at its update call
AddReactionRuns ==
    /\ rq.pc = "ready"
    /\ rq.op = "addReaction"
    /\ rq.context.user # Undef
    /\ FindOne(thoughts, "_id", rq.args.thoughtId) # Null

\* C12: an authenticated addReaction on an existing thought that succeeds
\* returns the stored parent thought, whose reactions are those it had just
\* before plus one at the end with the caller's username; and no step of any
\* request, however requests interleave, removes a stored reaction.
C12_ReactionAppended ==
    [][/\ (AddReactionRuns /\ parked' = parked /\ rq'.pc = "done"
             /\ rq'.result.kind = "data")
            => LET before == FindOne(thoughts, "_id", rq.args.thoughtId)
                   after == rq'.result.value
               IN /\ after # Null
                  /\ after = FindOne(thoughts', "_id", rq.args.thoughtId)
                  /\ Len(after.reactions) = Len(before.reactions) + 1
                  /\ SubSeq(after.reactions, 1, Len(before.reactions)) = before.reactions
                  /\ after.reactions[Len(after.reactions)].username
                        = rq.context.user.username
                  /\ after.reactions[Len(after.reactions)].reactionBody
                        = rq.args.reactionBody
       /\ \A i \in 1..Len(thoughts) :
             /\ Len(thoughts') >= i
             /\ thoughts'[i]._id = thoughts[i]._id
             /\ IsPrefix(thoughts[i].reactions, thoughts'[i].reactions)]_vars

\* Alice's and Bob's addReaction were both in progress before either ran,
\* and both reactions are stored
C12_Witness ==
    /\ rq.pc = "done"
    /\ rq.op = "addReaction"
    /\ rq.context.user = Bob
    /\ rq.result.kind = "data"
    /\ parked.pc = "done"
    /\ parked.op = "addReaction"
    /\ parked.context.user = Alice
    /\ parked.result.kind = "data"
    /\ Len(parked.result.value.reactions) = 1
    /\ Len(thoughts[1].reactions) = 2
    /\ thoughts[1].reactions[1].username = "alice"
    /\ thoughts[1].reactions[2].username = "bob"

NoDuplicates(arr) ==
    \A i \in 1..Len(arr) : \A j \in 1..Len(arr) : arr[i] = arr[j] => i = j

Occurrences(arr, x) == Cardinality({i \in 1..Len(arr) : arr[i] = x})

IdsOf(docs) == [i \in 1..Len(docs) |-> docs[i]._id]

\* the running request is an authenticated addFriend at its update call
AddFriendRuns ==
    /\ rq.pc = "ready"
    /\ rq.op = "addFriend"
    /\ rq.context.user # Undef

\* C13: however addFriend calls interleave, no friend id is stored twice in
\* a user's friends; a successful addFriend leaves the id exactly once in the
\* caller's friends, and when the id was already there it changes nothing
\* and returns the friends as they were.
C13_FriendSetSemantics ==
    [][/\ \A i \in 1..Len(users') : NoDuplicates(users'[i].friends)
       /\ (AddFriendRuns /\ parked' = parked /\ rq'.pc = "done"
             /\ rq'.result.kind = "data")
            => LET before == FindOne(users, "_id", rq.context.user._id)
                   after == FindOne(users', "_id", rq.context.user._id)
               IN /\ rq'.result.value # Null
                  /\ rq'.result.value._id = rq.context.user._id
                  /\ IdsOf(rq'.result.value.friends) = after.friends
                  /\ Occurrences(after.friends, rq.args.friendId) = 1
                  /\ IsPrefix(before.friends, after.friends)
                  /\ Occurrences(before.friends, rq.args.friendId) = 1
                        => (users' = users /\ after.friends = before.friends)]_vars

\* Alice added Bob twice, in two requests in progress together: both calls
\* returned the same friends, and Bob is stored once
C13_Witness ==
    /\ rq.pc = "done"
    /\ rq.op = "addFriend"
    /\ rq.context.user = Alice
    /\ rq.args.friendId = "id2"
    /\ rq.result.kind = "data"
    /\ parked.pc = "done"
    /\ parked.op = "addFriend"
    /\ parked.context.user = Alice
    /\ parked.args.friendId = "id2"
    /\ parked.result.kind = "data"
    /\ parked.result = rq.result
    /\ users[1].friends = <<"id2">>

\* C14: an authenticated addThought that succeeds stores exactly one new
\* thought, stamped with the caller's username and the given text; it then
\* appends that thought's _id once to the thoughts of the caller's own user
\* record, touches no other record, and returns the stored thought.
C14_ThoughtCreatedAndListed ==
    [][/\ (rq.pc = "ready" /\ rq.op = "addThought" /\ rq.context.user # Undef
             /\ parked' = parked /\ rq'.pc = "addThought:push")
            => /\ thoughts' = Append(thoughts, rq'.thought)
               /\ FindOne(thoughts, "_id", rq'.thought._id) = Null
               /\ rq'.thought.username = rq.context.user.username
               /\ rq'.thought.thoughtText = rq.args.thoughtText
               /\ users' = users
       /\ (rq.pc = "addThought:push" /\ parked' = parked /\ rq'.pc = "done"
             /\ rq'.result.kind = "data")
            => /\ rq'.result.value = rq.thought
               /\ rq'.result.value \in SeqToSet(thoughts')
               /\ thoughts' = thoughts
               /\ Len(users') = Len(users)
               /\ \A i \in 1..Len(users) :
                     IF users[i]._id = rq.context.user._id
                     THEN /\ users'[i] = [users[i] EXCEPT
                                            !.thoughts = Append(@, rq.thought._id)]
                          /\ Occurrences(users'[i].thoughts, rq.thought._id) = 1
                     ELSE /\ users'[i] = users[i]
                          /\ Occurrences(users'[i].thoughts, rq.thought._id) = 0]_vars

\* Alice and Bob each posted a thought, in two requests in progress together
C14_Witness ==
    /\ rq.pc = "done"
    /\ rq.op = "addThought"
    /\ rq.context.user = Bob
    /\ rq.result.kind = "data"
    /\ rq.result.value.username = "bob"
    /\ parked.pc = "done"
    /\ parked.op = "addThought"
    /\ parked.context.user = Alice
    /\ parked.result.kind = "data"
    /\ Len(thoughts) = 3
    /\ users[1].thoughts = <<1, parked.result.value._id>>
    /\ users[2].thoughts = <<rq.result.value._id>>

(***************************************************************************)
(* Claims about accounts and reads (Spec)                                  *)
(***************************************************************************)
\* C15: a successful addUser or login returns a token and a user; the token,
\* verified at any time inside its validity window, yields exactly the _id,
\* username and email of that user; login's user is the stored user with the
\* given email, addUser's the user it has just stored.
C15_TokenNamesReturnedUser ==
    (rq.pc = "done" /\ rq.op \in {"addUser", "login"} /\ rq.result.kind = "data")
        => LET token == rq.result.value.token
               user == rq.result.value.user
           IN /\ \A t \in now..(now + expiration - 1) :
                    LET v == jwt_verify(StrV(token), secret, expiration, t)
                    IN v.ok /\ v.payload.data = Identity(user)
              /\ ~jwt_verify(StrV(token), secret, expiration, now + expiration).ok
              /\ rq.op = "login" =>
                    (user = FindOne(users, "email", rq.args.email)
                        /\ isCorrectPassword(user, rq.args.password))
              /\ rq.op = "addUser" =>
                    (/\ user = users[Len(users)]
                     /\ user.username = rq.args.username
                     /\ user.email = rq.args.email
                     /\ Occurrences(IdsOf(users), user._id) = 1)

\* carol signed up, then logged in
C15_Witness ==
    /\ rq.pc = "done"
    /\ rq.op = "login"
    /\ rq.args.email = "carol@mail"
    /\ rq.result.kind = "data"
    /\ rq.result.value.user.username = "carol"
    /\ rq.result.value.user._id = "id3"
    /\ jwt_verify(StrV(rq.result.value.token), secret, expiration, now).payload.data
          = [_id |-> "id3", username |-> "carol", email |-> "carol@mail"]

\* C16: when User.create fails on a uniqueness conflict (the username or the
\* email is already stored), addUser ends at once with that error as its
\* result: no token is returned, the stored users stay as they were, and
\* the creation is not tried again.
C16_ConflictPropagates ==
    [][(rq.pc = "ready" /\ rq.op = "addUser" /\ duplicateKey(users, rq.args))
          => /\ users' = users
             /\ thoughts' = thoughts
             /\ served' = served
             /\ rq'.pc = "done"
             /\ rq'.result = PersistenceError("E11000 duplicate key error")]_vars

\* carol signed up, and a second sign-up with her username was refused
C16_Witness ==
    /\ rq.pc = "done"
    /\ rq.op = "addUser"
    /\ rq.args.username = "carol"
    /\ rq.result = PersistenceError("E11000 duplicate key error")
    /\ Len(users) = 3
    /\ users[3].username = "carol"

\* what a public read returns for the stored users and thoughts
PublicRead(op, args) ==
    CASE op = "thoughts" -> Query_thoughts(args)
      [] op = "thought" -> Query_thought(args)
      [] op = "users" -> Query_users
      [] op = "user" -> Query_user(args)

\* C17: the result of users, user, thoughts and thought is determined by
\* the stored users and thoughts and the arguments alone: it is the same
\* for a context without identity, with a verified identity, or left
\* anonymous by an invalid token.
C17_PublicReadsIgnoreIdentity ==
    (rq.pc = "done" /\ rq.op \in PublicReads /\ rq.context # Nil)
        => rq.result = PublicRead(rq.op, rq.args)

\* Bob, with a valid token, read the feed and got what an anonymous caller
\* gets
C17_Witness ==
    /\ rq.pc = "done"
    /\ rq.op = "thoughts"
    /\ rq.args.username = ""
    /\ rq.context # Nil
    /\ rq.context.user = Bob
    /\ rq.result = Data(<<FirstThought>>)

\* the requests in progress
InProgress(a, b) == {r \in {a, b} : r.pc # "idle"}

\* the identity a finished operation acted under, as its result shows it
SeenBy(r) ==
    CASE r.op = "addThought" -> r.result.value.username
      [] r.op = "addReaction" ->
            r.result.value.reactions[Len(r.result.value.reactions)].username
      [] OTHER -> r.result.value.username

\* C18: a request's context is what authMiddleware made of that request's
\* own carriers; it is set when the request is received and no step of a
\* resolver, of this or of another request in progress, changes it; the
\* operation acts under the identity of that context.
C18_ContextIsPerRequest ==
    [][/\ \A r \in InProgress(rq', parked') :
             /\ r.context # Nil => r.context = authMiddleware(r.request, now').req
             /\ r.context = Nil =>
                   (r.pc = "done" /\ authMiddleware(r.request, now').kind = "throw")
             /\ (r.pc = "done" /\ r.result.kind = "data" /\ r.result.value # Null)
                   => SeenBy(r) = authMiddleware(r.request, now').req.user.username
       /\ (rq.pc # "idle" /\ rq'.pc # "idle" /\ parked' = parked)
             => (rq'.context = rq.context /\ rq'.request = rq.request)
       /\ parked' # parked => (parked' = rq /\ rq' = parked)]_vars

\* Alice's addThought has finished while Bob's is between its two awaits,
\* each under its own identity
C18_Witness ==
    /\ rq.pc = "done"
    /\ rq.op = "addThought"
    /\ rq.context.user = Alice
    /\ rq.result.kind = "data"
    /\ rq.result.value.username = "alice"
    /\ parked.pc = "addThought:push"
    /\ parked.context.user = Bob
    /\ parked.thought.username = "bob"
    /\ parked.thought._id < rq.result.value._id

\* r was rejected for want of an identity
Rejected(r) ==
    /\ r.pc = "done"
    /\ r.op \in NeedsActor \cup {"me"}
    /\ r.context # Nil
    /\ r.context.user = Undef

\* C19 as stated: every operation that requires identity, called without
\* one, fails with the same error kind and the same message, and that
\* message is not the message of a failed login.
C19_UniformRejection ==
    \A a \in InProgress(rq, parked), b \in InProgress(rq, parked) :
        (Rejected(a) /\ Rejected(b))
            => /\ a.result.kind = "error"
               /\ a.result = b.result
               /\ a.result.message # "Incorrect credentials"

\* C19 amended: addThought, addReaction and addFriend, called without an
\* identity, fail with one and the same authentication error, 'You need to
\* be logged in!'; the query me fails with the same error kind but the
\* message 'Not logged in'; neither message is that of a failed login.
C19_MutationsRejectUniformly ==
    \A a \in InProgress(rq, parked), b \in InProgress(rq, parked) :
        (Rejected(a) /\ Rejected(b))
            => /\ a.result.kind = "error"
               /\ a.result.code = "UNAUTHENTICATED"
               /\ a.result.message # "Incorrect credentials"
               /\ a.op \in NeedsActor =>
                     a.result = AuthenticationError("You need to be logged in!")
               /\ a.op = "me" => a.result = AuthenticationError("Not logged in")
               /\ (a.op \in NeedsActor /\ b.op \in NeedsActor) => a.result = b.result

\* addThought and addFriend were both refused, with the same error
C19_Witness ==
    /\ Rejected(rq)
    /\ Rejected(parked)
    /\ rq.op = "addThought"
    /\ parked.op = "addFriend"
    /\ rq.result = parked.result
    /\ rq.result.message = "You need to be logged in!"

(***************************************************************************)
(* Claims about the order of response and cache update (SpecCache)         *)
(***************************************************************************)
\* a useQuery result fills a view that was absent
ViewLoaded == \E q \in DOMAIN cache : cache[q] = Absent /\ cache'[q] # Absent

\* C20: the views of the cache are patched only in the step that handles
\* the successful response of addThought; when the mutation has failed
\* (no identity, or the persistence layer refused), that step changes no
\* view, the form keeps its text and count, and the error is shown.
C20_UpdateOnlyAfterSuccess ==
    [][/\ (cpc = "awaiting" /\ cpc' = "idle" /\ rq.result.kind = "error")
            => /\ cache' = cache
               /\ form'.thoughtText = form.thoughtText
               /\ form'.characterCount = form.characterCount
               /\ form'.error
       /\ (cache' # cache /\ ~ViewLoaded) => (ThoughtReturned /\ UpdateRuns)]_vars

\* Alice typed "hello" and submitted with both views loaded; the thought was
\* stored but the push to her record was refused: the views are as loaded,
\* the text is still in the form
C20_Witness ==
    /\ cpc = "idle"
    /\ form.error
    /\ form.thoughtText = "hello"
    /\ form.characterCount = 5
    /\ Len(thoughts) = 2
    /\ cache.thoughts = [thoughts |-> <<FirstThought>>]
    /\ cache.me # Absent
    /\ cache.me.me.thoughts = <<FirstThought>>

\* C21: with the feed view never populated and the profile view populated,
\* the cache update after a successful addThought leaves the feed view
\* absent, appends the new thought to the profile view's thoughts, and
\* raises no error: the form is cleared.
C21_FeedAbsentProfileUpdated ==
    [][(ThoughtReturned /\ UpdateRuns /\ cache.thoughts = Absent /\ cache.me # Absent)
          => /\ cache'.thoughts = Absent
             /\ cache'.me = [me |-> [cache.me.me EXCEPT
                                       !.thoughts = Append(@, rq.result.value)]]
             /\ form'.error = FALSE
             /\ form'.thoughtText = ""]_vars

\* Alice opened her profile without having seen the feed, and posted
C21_Witness ==
    /\ cpc = "idle"
    /\ Len(thoughts) = 2
    /\ cache.thoughts = Absent
    /\ cache.me # Absent
    /\ cache.me.me.thoughts = <<FirstThought, thoughts[2]>>
    /\ form.error = FALSE
    /\ form.thoughtText = ""

\* r is an addThought between its receipt and its result
AddThoughtInProgress(r) ==
    /\ r.op = "addThought"
    /\ r.pc \in {"ready", "addThought:push"}

\* the thought list of every user whose username is name
ListsOf(name) ==
    {users[i].thoughts : i \in {j \in 1..Len(users) : users[j].username = name}}

\* C22: whenever no addThought is in progress, also after one whose
\* User.findByIdAndUpdate failed, every stored thought's _id is exactly once
\* in its author's thoughts, and every _id in a user's thoughts is that of a
\* stored thought of that user.
C22_ThoughtsAndListsAgree ==
    (~AddThoughtInProgress(rq) /\ ~AddThoughtInProgress(parked))
        => /\ \A i \in 1..Len(thoughts) :
                 /\ ListsOf(thoughts[i].username) # {}
                 /\ \A l \in ListsOf(thoughts[i].username) :
                        Occurrences(l, thoughts[i]._id) = 1
           /\ \A u \in 1..Len(users) : \A k \in 1..Len(users[u].thoughts) :
                 \E i \in 1..Len(thoughts) :
                    /\ thoughts[i]._id = users[u].thoughts[k]
                    /\ thoughts[i].username = users[u].username

\* the credential verified comes from the body field or the query parameter
FromBodyOrQuery(r) == Truthy(r.body.token) \/ Truthy(r.query.token)

\* C23: a credential taken from the body field or the query parameter is
\* handed to jwt.verify as it was sent, whether or not the request also has
\* an Authorization header; only a header credential is split and stripped.
C23_StripOnlyHeaderCredential ==
    (Called /\ out.kind = "return" /\ FromBodyOrQuery(req))
        => out.verified = <<Chosen(req)>>

\* the user named by the token a request carries
TokenUser(r) ==
    LET h == Chosen(r).s
    IN h[Len(h)].payload.data

\* C24: a thought or a reaction, when stored, gets the username of the
\* verified token of the request that stores it, whatever the arguments say
\* (a username argument does not override it), and no stored thought or
\* reaction changes its username afterwards.
C24_PostsUnderOwnName ==
    [][/\ Len(thoughts') >= Len(thoughts)
       /\ \A i \in 1..Len(thoughts) :
             /\ thoughts'[i].username = thoughts[i].username
             /\ IsPrefix(thoughts[i].reactions, thoughts'[i].reactions)
             /\ \A k \in (Len(thoughts[i].reactions) + 1)..Len(thoughts'[i].reactions) :
                   thoughts'[i].reactions[k].username = TokenUser(rq.request).username
       /\ \A i \in (Len(thoughts) + 1)..Len(thoughts') :
             thoughts'[i].username = TokenUser(rq.request).username]_vars

\* Alice asked for a thought under Bob's name; it is stored under hers
C24_Witness ==
    /\ rq.pc = "done"
    /\ rq.op = "addThought"
    /\ rq.args = [thoughtText |-> "hello", username |-> "bob"]
    /\ rq.result.kind = "data"
    /\ TokenUser(rq.request).username = "alice"
    /\ rq.result.value.username = "alice"
    /\ rq.result.value \in SeqToSet(thoughts)
    /\ \E i \in 1..Len(thoughts) :
          /\ Len(thoughts[i].reactions) > 0
          /\ thoughts[i].reactions[1].username = "bob"

(***************************************************************************)
(* Claims about the browser session (SpecSession)                          *)
(***************************************************************************)
\* token can be decoded and its expiry is not before time t
SavedAndValid(token, t) ==
    /\ token # Null
    /\ token.k = "string"
    /\ token.s # <<>>
    /\ Len(token.s) = 1
    /\ token.s[1].c = "jwt"
    /\ token.s[1].payload.exp >= t

\* C25: Auth.loggedIn() is true exactly when a token is saved that can be
\* decoded and has not expired; for a saved value that cannot be decoded it
\* is false.
C25_LoggedInIffSavedAndValid ==
    form.rendered # NotRendered
        => (form.rendered.loggedIn <=> SavedAndValid(form.rendered.token, form.rendered.at))

\* an AuthService.login or logout call is made in this step
SessionCall == form'.last # form.last \/ idToken' # idToken

\* C26: the saved token is the argument of the last Auth.login when no
\* Auth.logout came after it, and there is none after Auth.logout, when
\* Auth.loggedIn() is false; neither call sends anything to the server.
C26_LoginSavesLogoutClears ==
    [][/\ form'.last.method = "login" => idToken' = form'.last.idToken
       /\ form'.last.method = "logout"
             => (idToken' = Null /\ ~loggedIn(idToken', now'))
       /\ form'.last.method = "none" => idToken' = Null
       /\ SessionCall => (served' = served /\ rq' = rq)]_vars

\* Alice's token was saved, then Bob's: Bob's is the one kept, and no
\* request was made
C26_Witness ==
    /\ form.last = [method |-> "login", idToken |-> StrV(signToken(Bob, 1))]
    /\ idToken = StrV(signToken(Bob, 1))
    /\ form.rendered # NotRendered
    /\ form.rendered.loggedIn
    /\ served = 0

\* the request received in this step was sent by the session
SessionSends == rq.pc = "idle" /\ rq'.pc # "idle"

\* C27: every request of the session has the authorization header
\* "Bearer <token>" when a token is saved and "" when none is; with no
\* saved token the server resolves it to no identity, with a saved token
\* that is valid and has not expired to the identity in that token.
C27_SessionIdentityEndToEnd ==
    [][SessionSends
          => /\ rq'.request.headers.authorization =
                    IF idToken = Null THEN StrV(<<>>)
                    ELSE StrV(<<BearerWord, SP>> \o idToken.s)
             /\ idToken = Null => (rq'.pc = "ready" /\ rq'.context.user = Undef)
             /\ \A a \in Assertions, i \in 0..MaxClock :
                   (idToken = StrV(signToken(a, i)) /\ i <= now /\ now < i + expiration)
                      => (rq'.pc = "ready" /\ rq'.context.user = a)]_vars

\* Bob's session asked for me an hour after he logged in and got his record;
\* before, with nothing saved, the session was refused
C27_Witness ==
    /\ idToken = StrV(signToken(Bob, 0))
    /\ now = 1
    /\ served = 2
    /\ rq.pc = "done"
    /\ rq.request.headers.authorization = Bearer(signToken(Bob, 0))
    /\ rq.result.kind = "data"
    /\ rq.result.value.username = "bob"

(***************************************************************************)
(* Claims about the client cache and the server's reads (SpecCache)        *)
(***************************************************************************)
BothPopulated == cache.thoughts # Absent /\ cache.me # Absent

\* the owner of the token the client has saved
Owner == idToken.s[1].payload.data

\* both views hold what the server's thoughts() and me return now, without
\* a thought twice
CacheMatchesServer ==
    IF BothPopulated
    THEN /\ cache.thoughts.thoughts = Query_thoughts([username |-> ""]).value
         /\ cache.me.me.thoughts = Query_me([user |-> Owner]).value.thoughts
         /\ NoDuplicates(IdsOf(cache.thoughts.thoughts))
         /\ NoDuplicates(IdsOf(cache.me.me.thoughts))
    ELSE FALSE

\* no addThought has stored a thought without listing it
EveryThoughtListed ==
    \A i \in 1..Len(thoughts) :
        \E u \in 1..Len(users) :
            /\ users[u].username = thoughts[i].username
            /\ Occurrences(users[u].thoughts, thoughts[i]._id) = 1

\* C28: once the client, with no addThought of its own under way, has both
\* views populated with what the server returns, then after any of its
\* addThought calls, all successful, the feed view is again what thoughts()
\* returns (newest first) and the thoughts of the profile view are what me
\* returns (in insertion order), each thought once.
C28_CacheFollowsServer ==
    []((cpc = "idle" /\ CacheMatchesServer)
          => []((cpc = "idle" /\ EveryThoughtListed) => CacheMatchesServer))

\* two thoughts posted after both views were loaded
C28_Witness ==
    /\ cpc = "idle"
    /\ BothPopulated
    /\ EveryThoughtListed
    /\ Len(thoughts) = 3
    /\ Len(cache.thoughts.thoughts) = 3
    /\ cache.thoughts.thoughts[1] = thoughts[3]
    /\ cache.me.me.thoughts = thoughts
    /\ CacheMatchesServer

(***************************************************************************)
(* Claims about me and the Profile page                                    *)
(***************************************************************************)
\* the me resolver runs in this step
MeRuns == rq.pc = "ready" /\ rq.op = "me" /\ rq'.pc = "done"

\* C29: for a context with an identity me returns the stored user whose _id
\* is context.user._id, and no other user's record; for a context without
\* one it fails with the authentication error 'Not logged in'; it changes
\* nothing stored.
C29_MeIsTheCaller ==
    [][MeRuns
          => /\ IF rq.context.user # Undef
                THEN /\ rq'.result.kind = "data"
                     /\ rq'.result.value._id = rq.context.user._id
                     /\ \E i \in 1..Len(users) :
                           /\ users[i]._id = rq.context.user._id
                           /\ rq'.result.value = populate(populate(
                                  selectNoPassword(users[i]), "thoughts"), "friends")
                ELSE rq'.result = AuthenticationError("Not logged in")
             /\ UNCHANGED dbVars]_vars

\* Bob asked for me and got his own record, not the first user's
C29_Witness ==
    /\ rq.pc = "done"
    /\ rq.op = "me"
    /\ rq.context # Nil
    /\ rq.context.user = Bob
    /\ rq.result.kind = "data"
    /\ rq.result.value._id = "id2"
    /\ rq.result.value.username = "bob"
    /\ users[1].username = "alice"

\* the ThoughtForm sends its mutation in this step
FormSubmits == cpc = "idle" /\ cpc' = "awaiting"

\* C30: the Profile page shows the thought form only on the caller's own
\* profile and only when QUERY_ME has loaded with a user; so a thought is
\* submitted only with the profile view populated, and when its response is
\* handled the update reads that view, appends the thought and raises no
\* error.
C30_ProfileFormHasProfileView ==
    [][/\ Profile_rendersThoughtForm
             => (form.pathname = "/profile" /\ cache.me # Absent)
       /\ FormSubmits => (form.pathname = "/profile" /\ cache.me # Absent)
       /\ (ThoughtReturned /\ UpdateRuns)
             => /\ readQuery(cache, "me").ok
                /\ cache'.me = [me |-> [cache.me.me EXCEPT
                                          !.thoughts = Append(@, rq.result.value)]]
                /\ form'.error = FALSE]_vars

\* a thought posted from the own profile, the feed never seen, and the
\* user gone to another profile before the response came
C30_Witness ==
    /\ cpc = "idle"
    /\ form.pathname = "/profile/bob"
    /\ form.error = FALSE
    /\ Len(thoughts) = 2
    /\ cache.thoughts = Absent
    /\ cache.me # Absent
    /\ cache.me.me.thoughts = thoughts
    /\ ~Profile_rendersThoughtForm

====
